---- MODULE Spec2Model ----
(***************************************************************************)
(* xk6-mock-server, package mock: the wrapping of the k6 http exports.     *)
(* wrap replaces a method of a target object by a wrapper that rewrites    *)
(* the argument at a configured index through the lookup table, runs       *)
(* parseBody on it and then calls the original callable.                   *)
(***************************************************************************)
EXTENDS Integers, Sequences, FiniteSets, TLC

VARIABLES
    lookup,     \* mod.lookup: the table from URL to replacement URL
    target,     \* the object wrap works on: attribute name -> attribute
    setup,      \* the last wrap / wrapHTTPExports and the error it threw
    call,       \* the last call: attribute, arguments and bodies as passed
    frame,      \* arguments, bodies, steps and panic at the end of the call
    observed,   \* the invocations of the original callable in the call
    delivered,  \* what the caller of the call received
    applied     \* how often parseBody ran on the arguments of the call

vars == <<lookup, target, setup, call, frame, observed, delivered, applied>>

\* ------------------------------------------------------------------ bounds
MaxArgs == 2
MaxIndex == 1
MaxApply == 2

\* ------------------------------------------------------- script values
\* A JavaScript string is a sequence of UTF-16 code units: "a", "b" are
\* ASCII units, "H" a high surrogate, "L" a low surrogate, "R" U+FFFD.
\* A Go string is a sequence of code points: "a", "b", "R" and "P", the
\* supplementary code point a pair H L encodes.
Nil == [k |-> "nil"]
Undefined == [k |-> "undefined"]
Null == [k |-> "null"]
Num(n) == [k |-> "number", n |-> n]
Str(s) == [k |-> "string", s |-> s]
Ref(id) == [k |-> "object", id |-> id]
StrObj(s) == [k |-> "stringObject", s |-> s]

RECURSIVE Utf16Decode(_)
Utf16Decode(s) ==
    IF s = <<>> THEN <<>>
    ELSE IF Head(s) = "H" /\ Len(s) >= 2 /\ s[2] = "L"
         THEN <<"P">> \o Utf16Decode(Tail(Tail(s)))
    ELSE IF Head(s) \in {"H", "L"}
         THEN <<"R">> \o Utf16Decode(Tail(s))
    ELSE <<Head(s)>> \o Utf16Decode(Tail(s))

RECURSIVE Utf16Encode(_)
Utf16Encode(g) ==
    IF g = <<>> THEN <<>>
    ELSE IF Head(g) = "P" THEN <<"H", "L">> \o Utf16Encode(Tail(g))
    ELSE <<Head(g)>> \o Utf16Encode(Tail(g))

\* bodyVal.Export(): the Go value of a script value.
Export(v) ==
    CASE v.k = "string" -> [gk |-> "string", s |-> Utf16Decode(v.s)]
      [] v.k = "stringObject" -> [gk |-> "string", s |-> Utf16Decode(v.s)]
      [] v.k = "number" -> [gk |-> "int64", n |-> v.n]
      [] v.k = "object" -> [gk |-> "map", id |-> v.id]
      [] OTHER -> [gk |-> "nil"]

\* mod.runtime().ToValue(body) of a Go string.
ToValue(g) == Str(Utf16Encode(g))

\* ------------------------------------------------------------- inputs
ObjIds == {1, 2}
ArgValues == {Str(<<"a">>), Str(<<"b">>), Num(1), Undefined, Ref(1)}
Bodies == {Nil, Undefined, Null, Num(1), Ref(2), StrObj(<<"a">>),
           Str(<<"a">>), Str(<<"H">>), Str(<<"H", "L">>), Str(<<"L", "a">>)}
ArgLists == UNION {[1..n -> ArgValues] : n \in 0..MaxArgs}
\* Object 1 is the request description, object 2 a plain object without body.
Heaps == {[o \in ObjIds |-> IF o = 1 THEN b ELSE Nil] : b \in Bodies}
HeapsFor(a) ==
    IF \E i \in 1..Len(a) : a[i] = Ref(1) THEN Heaps
    ELSE {[o \in ObjIds |-> Nil]}
\* Results and failures: what a callable returns as (v, err).
NoErr == [kind |-> "none", msg |-> ""]
NoValue == [kind |-> "undefined", msg |-> ""]
Response == [kind |-> "value", msg |-> "response"]
Outcomes == {[v |-> Response, err |-> NoErr],
             [v |-> NoValue, err |-> [kind |-> "GoError", msg |-> "request failed"]],
             [v |-> NoValue, err |-> [kind |-> "TypeError", msg |-> "invalid url"]]}
LookupTables == {[x \in {} |-> <<>>],
                 [x \in {<<"a">>} |-> <<"b">>],
                 [x \in {<<"a">>, <<"b">>} |-> IF x = <<"a">> THEN <<"b">> ELSE <<"a">>]}

urlFirstMethods == <<"get", "head", "post", "put", "patch", "options", "del">>
urlSecondMethods == <<"request", "asyncRequest">>

Range(s) == {s[i] : i \in 1..Len(s)}
HTTPNames == Range(urlFirstMethods) \cup Range(urlSecondMethods) \cup {"batch"}
TestNames == {"method", "not_a_func", "absent"}
Names == HTTPNames \cup TestNames

Func(name) == [kind |-> "func", fn |-> name]
Missing == [kind |-> "nil"]
NotAFunc == [kind |-> "value"]

\* The http module's exports, the same without asyncRequest, and the
\* target object of TestModuleWrap.
Defaults == [n \in Names |-> IF n \in HTTPNames THEN Func(n) ELSE Missing]
DefaultsNoAsync == [Defaults EXCEPT !["asyncRequest"] = Missing]
TestTarget ==
    [n \in Names |-> CASE n = "method" -> Func(n)
                       [] n = "not_a_func" -> NotAFunc
                       [] OTHER -> Missing]
Targets == {Defaults, DefaultsNoAsync, TestTarget}

EmptyHeap == [o \in ObjIds |-> Nil]
NoSetup == [op |-> "none", method |-> "", index |-> 0, pre |-> Missing, err |-> NoErr]
NoCall == [name |-> "", attr |-> Missing, index |-> 0, args |-> <<>>,
           heap0 |-> EmptyHeap, outcome |-> [v |-> NoValue, err |-> NoErr]]
NoFrame == [args |-> <<>>, heap |-> EmptyHeap, trace |-> <<>>, panic |-> NoErr]
NoDelivery == [kind |-> "none", v |-> NoValue]

\* ---------------------------------------------------------- operations
\* A frame is the state a call works on: the argument slots (args), the
\* body attribute of every object (heap), the steps taken so far (trace)
\* and the Go panic that ended it, if any.

\* mod.rewrite(args, idx): the argument at idx, when it is text and a key
\* of the lookup table, is replaced in its slot by the mapped value.
rewrite(f, idx) ==
    LET g == [f EXCEPT !.trace = Append(@, "rewrite")]
    IN  IF f.panic # NoErr THEN f
        ELSE IF idx + 1 > Len(f.args) THEN g
        ELSE LET a == f.args[idx + 1]
             IN  IF a.k = "string" /\ a.s \in DOMAIN lookup
                 THEN [g EXCEPT !.args[idx + 1] = Str(lookup[a.s])]
                 ELSE g

IndexOutOfRange == [kind |-> "runtime error", msg |-> "index out of range"]

\* parseBody without the check that the body is a string: whatever the body
\* is, it is set again, coerced to text.
parseBodyCoerces(f, index) ==
    LET g == [f EXCEPT !.trace = Append(@, "parseBody")]
    IN  IF f.panic # NoErr THEN f
        ELSE IF index + 1 > Len(f.args) THEN [g EXCEPT !.panic = IndexOutOfRange]
        ELSE LET reqObj == f.args[index + 1]
             IN  IF reqObj.k # "object" THEN g
                 ELSE LET bodyVal == f.heap[reqObj.id]
                          body == Export(bodyVal)
                      IN  IF bodyVal = Nil \/ bodyVal = Undefined THEN g
                          ELSE IF body.gk # "string"
                               THEN [g EXCEPT !.heap[reqObj.id] = Str(<<"o">>)]
                          ELSE [g EXCEPT !.heap[reqObj.id] = ToValue(body.s)]

parseBody(f, index) ==
    LET g == [f EXCEPT !.trace = Append(@, "parseBody")]
    IN  IF f.panic # NoErr THEN f
        ELSE IF index + 1 > Len(f.args) THEN [g EXCEPT !.panic = IndexOutOfRange]
        ELSE LET reqObj == f.args[index + 1]
             IN  IF reqObj.k # "object" THEN g
                 ELSE LET bodyVal == f.heap[reqObj.id]
                          body == Export(bodyVal)
                      IN  IF bodyVal = Nil \/ bodyVal = Undefined THEN g
                          ELSE IF body.gk # "string" THEN g
                          ELSE [g EXCEPT !.heap[reqObj.id] = ToValue(body.s)]

\* common.Throw(rt, err): the error is thrown to the caller as it is.
Throw(err) == [kind |-> "throw", v |-> err]

\* callable(this, args...): the callable runs once on the frame as it is
\* now and ends as the outcome says.
Invoke(callable, this, f, outcome) ==
    [frame |-> [f EXCEPT !.trace = Append(@, "invoke")],
     observed |-> <<[fn |-> callable.fn, this |-> this, args |-> f.args, heap |-> f.heap]>>,
     v |-> outcome.v,
     err |-> outcome.err]

Finish(r, d) ==
    [frame |-> [r.frame EXCEPT !.trace = Append(@, d.kind)],
     observed |-> r.observed,
     delivered |-> d]

\* The wrapper without its call of rewrite.
wrapperNoRewrite(callable, index, callArgs, h, outcome) ==
    LET f0 == [args |-> callArgs, heap |-> h, trace |-> <<>>, panic |-> NoErr]
        f1 == IF Len(callArgs) > index THEN parseBody(f0, index) ELSE f0
        r  == Invoke(callable, "global", f1, outcome)
    IN  IF f1.panic # NoErr
        THEN Finish([frame |-> f1, observed |-> <<>>], Throw(f1.panic))
        ELSE IF r.err # NoErr
        THEN Finish(r, Throw(r.err))
        ELSE Finish(r, [kind |-> "return", v |-> r.v])

\* The wrapper that drops the error of the original callable.
wrapperSwallowsError(callable, index, callArgs, h, outcome) ==
    LET f0 == [args |-> callArgs, heap |-> h, trace |-> <<>>, panic |-> NoErr]
        f1 == IF Len(callArgs) > index
              THEN parseBody(rewrite(f0, index), index)
              ELSE f0
        r  == Invoke(callable, "global", f1, outcome)
    IN  IF f1.panic # NoErr
        THEN Finish([frame |-> f1, observed |-> <<>>], Throw(f1.panic))
        ELSE Finish(r, [kind |-> "return", v |-> r.v])

\* The wrapper without the check of the number of arguments.
wrapperNoGuard(callable, index, callArgs, h, outcome) ==
    LET f0 == [args |-> callArgs, heap |-> h, trace |-> <<>>, panic |-> NoErr]
        f1 == parseBody(rewrite(f0, index), index)
        r  == Invoke(callable, "global", f1, outcome)
    IN  IF f1.panic # NoErr
        THEN Finish([frame |-> f1, observed |-> <<>>], Throw(f1.panic))
        ELSE IF r.err # NoErr
        THEN Finish(r, Throw(r.err))
        ELSE Finish(r, [kind |-> "return", v |-> r.v])

\* The wrapper that works on the last argument instead of the one at index.
wrapperLastArgument(callable, index, callArgs, h, outcome) ==
    LET f0 == [args |-> callArgs, heap |-> h, trace |-> <<>>, panic |-> NoErr]
        f1 == IF Len(callArgs) > index
              THEN parseBody(rewrite(f0, Len(callArgs) - 1), Len(callArgs) - 1)
              ELSE f0
        r  == Invoke(callable, "global", f1, outcome)
    IN  IF f1.panic # NoErr
        THEN Finish([frame |-> f1, observed |-> <<>>], Throw(f1.panic))
        ELSE IF r.err # NoErr
        THEN Finish(r, Throw(r.err))
        ELSE Finish(r, [kind |-> "return", v |-> r.v])

\* The wrapper that calls the original callable before it rewrites.
wrapperInvokesFirst(callable, index, callArgs, h, outcome) ==
    LET f0 == [args |-> callArgs, heap |-> h, trace |-> <<>>, panic |-> NoErr]
        r  == Invoke(callable, "global", f0, outcome)
        f1 == IF Len(callArgs) > index
              THEN parseBody(rewrite(r.frame, index), index)
              ELSE r.frame
        r1 == [r EXCEPT !.frame = f1]
    IN  IF r.err # NoErr
        THEN Finish(r1, Throw(r.err))
        ELSE Finish(r1, [kind |-> "return", v |-> r.v])

\* The wrapper wrap installs, called with arguments callArgs.
wrapper(callable, index, callArgs, h, outcome) ==
    LET f0 == [args |-> callArgs, heap |-> h, trace |-> <<>>, panic |-> NoErr]
        f1 == IF Len(callArgs) > index
              THEN parseBody(rewrite(f0, index), index)
              ELSE f0
        r  == Invoke(callable, "global", f1, outcome)
    IN  IF f1.panic # NoErr
        THEN Finish([frame |-> f1, observed |-> <<>>], Throw(f1.panic))
        ELSE IF r.err # NoErr
        THEN Finish(r, Throw(r.err))
        ELSE Finish(r, [kind |-> "return", v |-> r.v])

\* A call of an attribute that was not wrapped reaches the function itself.
direct(callable, callArgs, h, outcome) ==
    LET f0 == [args |-> callArgs, heap |-> h, trace |-> <<>>, panic |-> NoErr]
        r  == Invoke(callable, "undefined", f0, outcome)
    IN  IF r.err # NoErr
        THEN Finish(r, Throw(r.err))
        ELSE Finish(r, [kind |-> "return", v |-> r.v])

\* mod.throwf("%s must be callable", errInvalidArg, method)
throwf(method) == [kind |-> "errInvalidArg", msg |-> method]

AssertFunction(v) == v.kind \in {"func", "wrapper"}

\* wrap without this.Set: the wrapper is built and never installed.
wrapNeverSets(this, method, index) ==
    LET v == this[method]
    IN  IF ~AssertFunction(v)
        THEN [target |-> this, err |-> throwf(method)]
        ELSE [target |-> this, err |-> NoErr]

wrap(this, method, index) ==
    LET v == this[method]
    IN  IF ~AssertFunction(v)
        THEN [target |-> this, err |-> throwf(method)]
        ELSE [target |-> [this EXCEPT ![method] =
                            [kind |-> "wrapper", callable |-> v, index |-> index]],
              err |-> NoErr]

RECURSIVE wrapEach(_, _, _)
wrapEach(this, methods, index) ==
    IF methods = <<>> THEN [target |-> this, err |-> NoErr]
    ELSE LET r == wrap(this, Head(methods), index)
         IN  IF r.err # NoErr THEN r
             ELSE wrapEach(r.target, Tail(methods), index)

\* wrapHTTPExports with index 0 for every method.
wrapHTTPExportsAllFirst(defaults) ==
    LET r == wrapEach(defaults, urlFirstMethods, 0)
    IN  IF r.err # NoErr THEN r
        ELSE wrapEach(r.target, urlSecondMethods, 0)

wrapHTTPExports(defaults) ==
    LET r == wrapEach(defaults, urlFirstMethods, 0)
    IN  IF r.err # NoErr THEN r
        ELSE wrapEach(r.target, urlSecondMethods, 1)

\* ------------------------------------------------------------- actions
Init ==
    /\ lookup \in LookupTables
    /\ target \in Targets
    /\ setup = NoSetup
    /\ call = NoCall
    /\ frame = NoFrame
    /\ observed = <<>>
    /\ delivered = NoDelivery
    /\ applied = 0

\* The script runtime runs one operation at a time: the next one starts
\* when the outcome of the last one has been taken.
Idle == setup = NoSetup /\ call = NoCall

\* helper.module.wrap(target, method, index), once per attribute.
Wrap(method, index) ==
    /\ Idle
    /\ target[method].kind # "wrapper"
    /\ LET r == wrap(target, method, index)
       IN  /\ target' = r.target
           /\ setup' = [op |-> "wrap", method |-> method, index |-> index,
                        pre |-> target[method], err |-> r.err]
    /\ call' = NoCall
    /\ frame' = NoFrame
    /\ observed' = <<>>
    /\ delivered' = NoDelivery
    /\ UNCHANGED <<lookup, applied>>

WrapHTTPExports ==
    /\ Idle
    /\ \A n \in Names : target[n].kind # "wrapper"
    /\ LET r == wrapHTTPExports(target)
       IN  /\ target' = r.target
           /\ setup' = [op |-> "wrapHTTPExports", method |-> "", index |-> 0,
                        pre |-> Missing, err |-> r.err]
    /\ call' = NoCall
    /\ frame' = NoFrame
    /\ observed' = <<>>
    /\ delivered' = NoDelivery
    /\ UNCHANGED <<lookup, applied>>

\* A script calls the attribute name of the target.
Call(name, callArgs, h, outcome) ==
    /\ Idle
    /\ AssertFunction(target[name])
    /\ LET attr == target[name]
           r == IF attr.kind = "wrapper"
                THEN wrapper(attr.callable, attr.index, callArgs, h, outcome)
                ELSE direct(attr, callArgs, h, outcome)
       IN  /\ call' = [name |-> name, attr |-> attr,
                       index |-> IF attr.kind = "wrapper" THEN attr.index ELSE 0,
                       args |-> callArgs, heap0 |-> h, outcome |-> outcome]
           /\ frame' = r.frame
           /\ observed' = r.observed
           /\ delivered' = r.delivered
    /\ setup' = NoSetup
    /\ UNCHANGED <<lookup, target, applied>>

\* The caller takes the outcome of the last operation and goes on.
Continue ==
    /\ ~Idle
    /\ setup' = NoSetup
    /\ call' = NoCall
    /\ frame' = NoFrame
    /\ observed' = <<>>
    /\ delivered' = NoDelivery
    /\ applied' = 0
    /\ UNCHANGED <<lookup, target>>

Next ==
    \/ Continue
    \/ \E m \in TestNames, i \in 0..MaxIndex : Wrap(m, i)
    \/ WrapHTTPExports
    \/ /\ Idle
       /\ \E n \in {m \in Names : AssertFunction(target[m])}, a \in ArgLists :
             \E h \in HeapsFor(a), o \in Outcomes : Call(n, a, h, o)

Spec == Init /\ [][Next]_vars

\* ------------------------------------------- parseBody called directly
InitParseBody ==
    /\ lookup \in LookupTables
    /\ target = TestTarget
    /\ setup = NoSetup
    /\ call = NoCall
    /\ frame = NoFrame
    /\ observed = <<>>
    /\ delivered = NoDelivery
    /\ applied = 0

\* helper.module.parseBody(args, index) on fresh arguments.
ParseBody(callArgs, index, h) ==
    /\ Idle
    /\ call' = [name |-> "parseBody", attr |-> Missing, index |-> index,
                args |-> callArgs, heap0 |-> h,
                outcome |-> [v |-> NoValue, err |-> NoErr]]
    /\ frame' = parseBody([args |-> callArgs, heap |-> h, trace |-> <<>>,
                           panic |-> NoErr], index)
    /\ applied' = 1
    /\ UNCHANGED <<lookup, target, setup, observed, delivered>>

\* The same call once more, on the same arguments.
ParseBodyAgain ==
    /\ call.name = "parseBody"
    /\ frame.panic = NoErr
    /\ applied < MaxApply
    /\ frame' = parseBody(frame, call.index)
    /\ applied' = applied + 1
    /\ UNCHANGED <<lookup, target, setup, call, observed, delivered>>

NextParseBody ==
    \/ Continue
    \/ ParseBodyAgain
    \/ /\ Idle
       /\ \E a \in ArgLists, i \in 0..MaxIndex :
             \E h \in HeapsFor(a) : ParseBody(a, i, h)

SpecParseBody == InitParseBody /\ [][NextParseBody]_vars

\* ------------------------------------------------------------- claims
\* The last operation was a call of a wrapped attribute.
Wrapped == call.name \notin {"", "parseBody"} /\ call.attr.kind = "wrapper"
\* The call passed more than index arguments.
PassesGuard == Len(call.args) > call.index
\* The last operation was parseBody, called directly.
ParseBodyRan == call.name = "parseBody" /\ applied >= 1
InRange == call.index + 1 <= Len(call.args)

\* C1: in a wrapped call that passes more than argIndex arguments, the
\* original callable observes at argIndex the mapped replacement when the
\* argument is a text that is a key of the lookup table, and the argument
\* as passed in every other case.
C1_RewriteAtIndex ==
    (Wrapped /\ PassesGuard) =>
        /\ Len(observed) = 1
        /\ LET a == call.args[call.index + 1]
               o == observed[1].args[call.index + 1]
           IN  IF a.k = "string" /\ a.s \in DOMAIN lookup
               THEN o = Str(lookup[a.s])
               ELSE o = a

C1_Witness ==
    /\ Wrapped /\ PassesGuard
    /\ call.args[call.index + 1] = Str(<<"a">>)
    /\ Len(observed) = 1
    /\ observed[1].args[call.index + 1] = Str(<<"b">>)

C3_FailurePropagates ==
    (Wrapped /\ call.outcome.err # NoErr) =>
        delivered = [kind |-> "throw", v |-> call.outcome.err]

C3_Witness ==
    /\ Wrapped
    /\ call.outcome.err.kind = "TypeError"
    /\ delivered.kind = "throw"

\* C4: a wrapped call with fewer than argIndex + 1 arguments runs neither
\* rewrite nor parseBody, fails only if the original callable fails, and
\* the original callable gets the arguments as passed.
C4_ArgumentCountGuard ==
    (Wrapped /\ ~PassesGuard) =>
        /\ "rewrite" \notin Range(frame.trace)
        /\ "parseBody" \notin Range(frame.trace)
        /\ Len(observed) = 1
        /\ observed[1].args = call.args
        /\ observed[1].heap = call.heap0
        /\ frame.heap = call.heap0
        /\ delivered = IF call.outcome.err = NoErr
                       THEN [kind |-> "return", v |-> call.outcome.v]
                       ELSE [kind |-> "throw", v |-> call.outcome.err]

C4_Witness ==
    /\ Wrapped /\ ~PassesGuard
    /\ call.args = <<Ref(1)>>
    /\ call.heap0[1] = Str(<<"H">>)
    /\ Len(observed) = 1

C6_TextBodyRoundTrip ==
    (/\ ParseBodyRan /\ InRange
     /\ call.args[call.index + 1].k = "object"
     /\ call.heap0[call.args[call.index + 1].id].k = "string") =>
        /\ frame.panic = NoErr
        /\ frame.heap = call.heap0

\* C7: parseBody never panics, whatever the arguments and the index.
C7_ParseBodyNeverRaises ==
    ParseBodyRan => frame.panic = NoErr

\* C8: in a wrapped call the original callable gets as many arguments as
\* were passed, every argument at another position than argIndex is the
\* one passed, and no object but the one at argIndex has its body changed.
C8_OnlyIndexedArgument ==
    Wrapped =>
        /\ Len(observed) = 1
        /\ Len(observed[1].args) = Len(call.args)
        /\ \A i \in 1..Len(call.args) :
              i # call.index + 1 => observed[1].args[i] = call.args[i]
        /\ \A o \in ObjIds :
              (~PassesGuard \/ call.args[call.index + 1] # Ref(o)) =>
                  observed[1].heap[o] = call.heap0[o]

C8_Witness ==
    /\ Wrapped /\ PassesGuard
    /\ call.index = 0
    /\ call.args = <<Str(<<"a">>), Ref(1)>>
    /\ call.heap0[1] = Str(<<"H">>)
    /\ Len(observed) = 1
    /\ observed[1].args = <<Str(<<"b">>), Ref(1)>>

\* C9: after wrapHTTPExports every one of get, head, post, put, patch,
\* options and del is a wrapper with index 0 around the function of that
\* name, request and asyncRequest are wrappers with index 1, and no other
\* attribute is a wrapper.
C9_HTTPExportsIndexes ==
    (setup.op = "wrapHTTPExports" /\ setup.err = NoErr) =>
        \A n \in Names :
            IF n \in {"get", "head", "post", "put", "patch", "options", "del"}
            THEN target[n] = [kind |-> "wrapper", callable |-> Func(n), index |-> 0]
            ELSE IF n \in {"request", "asyncRequest"}
            THEN target[n] = [kind |-> "wrapper", callable |-> Func(n), index |-> 1]
            ELSE target[n].kind # "wrapper"

C9_Witness ==
    /\ setup.op = "wrapHTTPExports"
    /\ setup.err = NoErr
    /\ target["del"].kind = "wrapper"
    /\ target["asyncRequest"].kind = "wrapper"
    /\ target["batch"].kind = "func"

\* C10: a wrapped call that passes the guard runs rewrite, then parseBody,
\* then the original callable, once, on the arguments as they are after the
\* two, and only then hands its value or its failure to the caller.
C10_StepOrder ==
    (Wrapped /\ PassesGuard) =>
        /\ delivered.kind \in {"return", "throw"}
        /\ frame.trace = <<"rewrite", "parseBody", "invoke", delivered.kind>>
        /\ Len(observed) = 1
        /\ observed[1].args = frame.args
        /\ observed[1].heap = frame.heap

C10_Witness ==
    /\ Wrapped /\ PassesGuard
    /\ frame.trace = <<"rewrite", "parseBody", "invoke", "throw">>
    /\ frame.args # call.args
    /\ Len(observed) = 1

====
